---- MODULE Spec2Model ----
(***************************************************************************)
(* TruckMate Routes: the trip-planning surface (PlanTrip), the map adapter *)
(* (MapProvider), the log-review surface (ReviewLogs) with its mock log    *)
(* generator, the cycle-hours control and the location input, as state     *)
(* machines.  Times are in seconds; cycle hours are in half hours (the     *)
(* slider step), so 35.5 h is 71 and 70 h is 140.                          *)
(***************************************************************************)
EXTENDS Integers, Sequences, FiniteSets, TLC

VARIABLES
    \* environment
    route,              \* the router's current path
    localStorage,       \* key -> <<>> (absent) or <<serialized value>>
    now,                \* wall clock, seconds since the session's base instant
    toast,              \* title of the notice last shown ("" when none)
    timeZone,           \* the host's time zone setting
    \* PlanTrip component state (PlanTrip.tsx:23-29)
    currentLocation, pickupLocation, dropoffLocation,
    cycleHours, mapLocations, isCalculating,
    \* suspended handlePlanTrip calls and scheduled navigate timers
    planTasks, navTimers,
    \* MapProvider refs (part_004:27-30) and the map's route overlay
    mapInstance, markers, routeSource, routeLayer,
    mapsConstructed,    \* history: number of Map objects constructed by initMap
    \* the map surface: which component is mounted, its reverse-geocoding
    \* requests in flight, and the onLocationSelect calls of its last handler
    mapSurface, reverseInFlight, locationSelections,
    routeDrawCalls,     \* history: arguments of the drawRoute calls of the last handler
    \* ReviewLogs component state (ReviewLogs.tsx:51-53)
    tripData, eldLogs, currentLogIndex,
    \* LocationInput component state (LocationInput.tsx:47-52)
    value, debouncedSearchTerm, debounceTimer, inFlight, issued,
    suggestions, showSuggestions, isLoading, isValid,
    onChangeCalls       \* history: the onChange calls of the last LocationInput handler

envVars    == <<route, localStorage, now, toast, timeZone>>
planVars   == <<currentLocation, pickupLocation, dropoffLocation,
                cycleHours, mapLocations, isCalculating>>
taskVars   == <<planTasks, navTimers>>
clickVars  == <<mapSurface, reverseInFlight, locationSelections>>
mapVars    == <<mapInstance, markers, routeSource, routeLayer, routeDrawCalls,
                mapsConstructed, clickVars>>
reviewVars == <<tripData, eldLogs, currentLogIndex>>
inputVars  == <<value, debouncedSearchTerm, debounceTimer, inFlight, issued,
                suggestions, showSuggestions, isLoading, isValid, onChangeCalls>>
vars == <<envVars, planVars, taskVars, mapVars, reviewVars, inputVars>>

----------------------------------------------------------------------------
(* Bounds of the model *)

MaxClock   == 3     \* the clock stops advancing here
MaxTasks   == 1     \* handlePlanTrip calls suspended at the same time
MaxMarkers == 3     \* markers the adapter may hold before selections stop

----------------------------------------------------------------------------
(* Small helpers *)

RemoveAt(s, i) == SubSeq(s, 1, i - 1) \o SubSeq(s, i + 1, Len(s))

Roles == {"current", "pickup", "dropoff"}

----------------------------------------------------------------------------
(* Dates.  An instant is a number of seconds since 2024-01-01T00:00:00Z;   *)
(* an ISO string is modelled by its two parts, the calendar date before    *)
(* the "T" and the time of day after it.                                   *)

SecondsPerDay == 24 * 3600

DaysInYear(y) == IF y % 4 = 0 THEN 366 ELSE 365

MonthLength(y, m) ==
    IF m = 2 THEN (IF y % 4 = 0 THEN 29 ELSE 28)
    ELSE IF m \in {4, 6, 9, 11} THEN 30 ELSE 31

RECURSIVE MonthFromDays(_, _, _)
MonthFromDays(y, m, n) ==
    IF n >= MonthLength(y, m) THEN MonthFromDays(y, m + 1, n - MonthLength(y, m))
    ELSE [year |-> y, month |-> m, day |-> n + 1]

RECURSIVE CivilFromDays(_, _)
CivilFromDays(y, n) ==
    IF n >= DaysInYear(y) THEN CivilFromDays(y + 1, n - DaysInYear(y))
    ELSE MonthFromDays(y, 1, n)

RECURSIVE DaysBeforeMonth(_, _)
DaysBeforeMonth(y, m) ==
    IF m = 1 THEN 0 ELSE DaysBeforeMonth(y, m - 1) + MonthLength(y, m - 1)

RECURSIVE DaysBeforeYear(_)
DaysBeforeYear(y) ==
    IF y = 2024 THEN 0 ELSE DaysBeforeYear(y - 1) + DaysInYear(y - 1)

\* Date.prototype.toISOString
ToISOString(t) ==
    [date |-> CivilFromDays(2024, t \div SecondsPerDay), time |-> t % SecondsPerDay]

\* new Date(isoString)
ParseDate(iso) ==
    (DaysBeforeYear(iso.date.year) + DaysBeforeMonth(iso.date.year, iso.date.month)
        + (iso.date.day - 1)) * SecondsPerDay + iso.time

\* The host's time zone.  Date's getDate and setDate work on local time,
\* toISOString on UTC.  Offsets are in seconds east of UTC; Europe/Berlin has
\* daylight saving time from the last Sunday of March, 01:00 UTC, to the last
\* Sunday of October, 01:00 UTC.
TimeZones == {"UTC", "Europe/Berlin"}

Instant(year, month, day, time) ==
    ParseDate([date |-> [year |-> year, month |-> month, day |-> day], time |-> time])

StandardOffset(zone) == IF zone = "UTC" THEN 0 ELSE 3600

DaylightOffset(zone) == IF zone = "UTC" THEN 0 ELSE 7200

InDaylightTime(t) ==
    \/ Instant(2024, 3, 31, 3600) <= t /\ t < Instant(2024, 10, 27, 3600)
    \/ Instant(2025, 3, 30, 3600) <= t /\ t < Instant(2025, 10, 26, 3600)

UTCOffset(zone, t) ==
    IF InDaylightTime(t) THEN DaylightOffset(zone) ELSE StandardOffset(zone)

\* LocalTime(t) of ECMAScript
LocalTime(zone, t) == t + UTCOffset(zone, t)

\* UTC(t) of ECMAScript: the instant whose local time is `local`; of two such
\* instants the earlier, and for a local time skipped by a transition the
\* one given by the offset before the transition
FromLocalTime(zone, local) ==
    LET candidates == {u \in {local - StandardOffset(zone), local - DaylightOffset(zone)} :
                          LocalTime(zone, u) = local}
    IN  IF candidates # {}
        THEN CHOOSE u \in candidates : \A v \in candidates : u <= v
        ELSE local - StandardOffset(zone)

\* date.setDate(date.getDate() + day): the same local time of day, `day`
\* local calendar days on
AddDays(t, day) ==
    FromLocalTime(timeZone, LocalTime(timeZone, t) + day * SecondsPerDay)

\* the host's time zone setting changes (the device travels or is reconfigured)
TimeZoneChange(zone) ==
    /\ zone # timeZone
    /\ timeZone' = zone
    /\ UNCHANGED <<route, localStorage, now, toast>>
    /\ UNCHANGED <<planVars, taskVars, mapVars, reviewVars, inputVars>>

----------------------------------------------------------------------------
(* JSON.  A serialized object is the sequence of its <<key, value>> pairs  *)
(* in insertion order; a serialized array is the sequence of its elements. *)

Field(json, key) == json[CHOOSE i \in 1..Len(json) : json[i][1] = key][2]

StringifyLocation(loc) ==
    << <<"lat", loc.lat>>, <<"lng", loc.lng>>,
       <<"address", loc.address>>, <<"type", loc.type>> >>

ParseLocation(json) ==
    [lat |-> Field(json, "lat"), lng |-> Field(json, "lng"),
     address |-> Field(json, "address"), type |-> Field(json, "type")]

\* JSON.stringify(tripData), PlanTrip.tsx:100
JSONStringify(trip) ==
    << <<"currentLocation", trip.currentLocation>>,
       <<"pickupLocation", trip.pickupLocation>>,
       <<"dropoffLocation", trip.dropoffLocation>>,
       <<"cycleHours", trip.cycleHours>>,
       <<"mapLocations",
         [i \in 1..Len(trip.mapLocations) |-> StringifyLocation(trip.mapLocations[i])]>>,
       <<"plannedAt", trip.plannedAt>> >>

\* JSON.parse(stored) read as a TripData, ReviewLogs.tsx:60
JSONParse(json) ==
    [currentLocation |-> Field(json, "currentLocation"),
     pickupLocation  |-> Field(json, "pickupLocation"),
     dropoffLocation |-> Field(json, "dropoffLocation"),
     cycleHours      |-> Field(json, "cycleHours"),
     mapLocations    |->
        [i \in 1..Len(Field(json, "mapLocations")) |->
            ParseLocation(Field(json, "mapLocations")[i])],
     plannedAt       |-> Field(json, "plannedAt")]

StorageKeys == {"currentTrip", "tripData"}

\* the slot handlePlanTrip writes (PlanTrip.tsx:100) and the slot the review
\* surface reads (ReviewLogs.tsx:58)
PlanSlot == "currentTrip"

\* variant: the review surface reading the other key
ReviewSlotOtherKey == "tripData"

ReviewSlot == "currentTrip"

Stored(key) == localStorage[key]

----------------------------------------------------------------------------
(* The map adapter, MapProvider (part_004) *)

getMarkerColor(type) ==
    CASE type = "current" -> "#28a745"
      [] type = "pickup"  -> "#ffc107"
      [] type = "dropoff" -> "#007bff"
      [] OTHER            -> "#000000"

\* markers.current after addMarker(location)
AddMarker(location) ==
    IF ~mapInstance THEN markers
    ELSE Append(markers, [lngLat |-> <<location.lng, location.lat>>,
                          color  |-> getMarkerColor(location.type)])

\* the LineString drawRoute builds: locations.map(loc => [loc.lng, loc.lat])
RouteCoordinates(locations) ==
    [i \in 1..Len(locations) |-> <<locations[i].lng, locations[i].lat>>]

\* The map's route overlay: the source 'route', holding at most one
\* LineString, the layer 'route-layer', and whether an add was attempted for
\* an id that exists, which the map rejects with an exception that ends the
\* caller.
RouteOverlay == [source |-> routeSource, layer |-> routeLayer, duplicate |-> FALSE]

RemoveLayer(overlay) == [overlay EXCEPT !.layer = FALSE]

RemoveSource(overlay) == [overlay EXCEPT !.source = <<>>]

AddSource(overlay, coordinates) ==
    IF overlay.duplicate THEN overlay
    ELSE IF overlay.source # <<>> THEN [overlay EXCEPT !.duplicate = TRUE]
    ELSE [overlay EXCEPT !.source = <<coordinates>>]

AddLayer(overlay) ==
    IF overlay.duplicate THEN overlay
    ELSE IF overlay.layer THEN [overlay EXCEPT !.duplicate = TRUE]
    ELSE [overlay EXCEPT !.layer = TRUE]

\* variant: drawRoute without the removal of the previous route
RemovePreviousRouteSkipped(overlay) == overlay

\* if (getLayer(layerId)) { removeLayer(layerId); removeSource(sourceId); }
RemovePreviousRoute(overlay) ==
    IF overlay.layer THEN RemoveSource(RemoveLayer(overlay)) ELSE overlay

\* the map's route overlay after drawRoute(locations)
DrawRoute(locations) ==
    IF ~mapInstance \/ Len(locations) < 2
    THEN RouteOverlay
    ELSE AddLayer(AddSource(RemovePreviousRoute(RouteOverlay),
                            RouteCoordinates(locations)))

\* the route effect of the map surface that owns its map (part_000:276-323):
\* layer and source are removed each on its own test, then added again when
\* the route is shown and there is more than one location
RouteEffect(overlay, locations, showRoute) ==
    LET withoutLayer  == IF overlay.layer THEN RemoveLayer(overlay) ELSE overlay
        withoutSource == IF withoutLayer.source # <<>>
                         THEN RemoveSource(withoutLayer) ELSE withoutLayer
    IN  IF showRoute /\ Len(locations) > 1
        THEN AddLayer(AddSource(withoutSource, RouteCoordinates(locations)))
        ELSE withoutSource

\* variant: initMap without its early return
InitMapReturnsEarlyNever == FALSE

\* the early return of initMap: mapInstance.current || !container (the
\* container is the mounted map element, never null when the effect runs)
InitMapReturnsEarly == mapInstance

\* initMap(container), called by the map component's mount effect whenever
\* the effect runs; a newly constructed Map has no source and no layer
InitMap ==
    /\ route = "/plan"
    /\ IF InitMapReturnsEarly
       THEN UNCHANGED <<mapInstance, mapsConstructed, routeSource, routeLayer>>
       ELSE /\ mapInstance' = TRUE
            /\ mapsConstructed' = mapsConstructed + 1
            /\ routeSource' = <<>>
            /\ routeLayer' = FALSE
    /\ UNCHANGED <<markers, routeDrawCalls, clickVars>>
    /\ UNCHANGED <<envVars, planVars, taskVars, reviewVars, inputVars>>

----------------------------------------------------------------------------
(* The planning surface, PlanTrip.tsx *)

InitialCycleHours == 71     \* useState(35.5)

\* variant: the updater putting the new Location first
UpdatedLocationsPrepend(prev, newLocation) ==
    <<newLocation>> \o SelectSeq(prev, LAMBDA loc : loc.type # newLocation.type)

\* variant: the updater without its filter
UpdatedLocationsAppend(prev, newLocation) ==
    prev \o <<newLocation>>

\* the updater of setMapLocations, PlanTrip.tsx:51-58
UpdatedLocations(prev, newLocation) ==
    SelectSeq(prev, LAMBDA loc : loc.type # newLocation.type) \o <<newLocation>>

\* handleLocationChange(type, address, coordinates?); coordinates is <<>> when
\* the input reports typed text and <<[lat, lng]>> when a suggestion was picked
HandleLocationChange(type, address, coordinates) ==
    /\ route = "/plan"
    /\ currentLocation' = IF type = "current" THEN address ELSE currentLocation
    /\ pickupLocation'  = IF type = "pickup"  THEN address ELSE pickupLocation
    /\ dropoffLocation' = IF type = "dropoff" THEN address ELSE dropoffLocation
    /\ IF coordinates # <<>>
       THEN LET newLocation == [lat |-> coordinates[1].lat, lng |-> coordinates[1].lng,
                                address |-> address, type |-> type]
                updatedLocations == UpdatedLocations(mapLocations, newLocation)
                drawn == Len(updatedLocations) >= 2
            IN  /\ mapInstance => Len(markers) < MaxMarkers
                /\ markers' = AddMarker(newLocation)
                /\ mapLocations' = updatedLocations
                /\ routeDrawCalls' = IF drawn THEN <<updatedLocations>> ELSE <<>>
                /\ routeSource' = IF drawn THEN DrawRoute(updatedLocations).source
                                  ELSE routeSource
                /\ routeLayer'  = IF drawn THEN DrawRoute(updatedLocations).layer
                                  ELSE routeLayer
       ELSE /\ routeDrawCalls' = <<>>
            /\ UNCHANGED <<mapLocations, markers, routeSource, routeLayer>>
    /\ UNCHANGED <<cycleHours, isCalculating, mapInstance, mapsConstructed, clickVars>>
    /\ UNCHANGED <<envVars, taskVars, reviewVars, inputVars>>

\* onChange={setCycleHours}: a slider move or a quick-set preset
SetCycleHours(hours) ==
    /\ route = "/plan"
    /\ cycleHours' = hours
    /\ UNCHANGED <<currentLocation, pickupLocation, dropoffLocation,
                   mapLocations, isCalculating>>
    /\ UNCHANGED <<envVars, taskVars, mapVars, reviewVars, inputVars>>

\* the Clear All Fields button, PlanTrip.tsx:209-215
ClearAllFields ==
    /\ route = "/plan"
    /\ currentLocation' = ""
    /\ pickupLocation' = ""
    /\ dropoffLocation' = ""
    /\ cycleHours' = 0
    /\ mapLocations' = <<>>
    /\ UNCHANGED isCalculating
    /\ UNCHANGED <<envVars, taskVars, mapVars, reviewVars, inputVars>>

CalcDelay == 2      \* setTimeout(resolve, 2000)
NavDelay  == 1      \* setTimeout(() => navigate('/logs'), 1000)

\* variant: the record built from the component's state at the time of writing
TripRecordFromLiveState(closure, t) ==
    [currentLocation |-> currentLocation,
     pickupLocation  |-> pickupLocation,
     dropoffLocation |-> dropoffLocation,
     cycleHours      |-> cycleHours,
     mapLocations    |-> mapLocations,
     plannedAt       |-> ToISOString(t)]

\* variant: the record taking its cycle hours from the state at the write
TripRecordLiveCycleHours(closure, t) ==
    [currentLocation |-> closure.currentLocation,
     pickupLocation  |-> closure.pickupLocation,
     dropoffLocation |-> closure.dropoffLocation,
     cycleHours      |-> cycleHours,
     mapLocations    |-> closure.mapLocations,
     plannedAt       |-> ToISOString(t)]

\* the tripData literal of handlePlanTrip, built from the values the handler's
\* closure captured when it was invoked, at instant t
TripRecord(closure, t) ==
    [currentLocation |-> closure.currentLocation,
     pickupLocation  |-> closure.pickupLocation,
     dropoffLocation |-> closure.dropoffLocation,
     cycleHours      |-> closure.cycleHours,
     mapLocations    |-> closure.mapLocations,
     plannedAt       |-> ToISOString(t)]

\* the expiry instants of all pending timers; the event loop runs timer
\* callbacks in the order in which they expire, possibly late
TimerExpiries ==
    {planTasks[i].invokedAt + CalcDelay : i \in 1..Len(planTasks)}
        \cup {navTimers[i] : i \in 1..Len(navTimers)}

TimerRuns(expiry) ==
    now >= expiry /\ \A e \in TimerExpiries : expiry <= e

\* variant: the guard without its pickup test
MissingInformationNoPickup ==
    currentLocation = "" \/ dropoffLocation = ""

\* the guard of handlePlanTrip, PlanTrip.tsx:70
MissingInformation ==
    currentLocation = "" \/ pickupLocation = "" \/ dropoffLocation = ""

\* handlePlanTrip up to its await; the button is disabled while isCalculating
HandlePlanTrip ==
    /\ route = "/plan"
    /\ ~isCalculating
    /\ IF MissingInformation
       THEN /\ toast' = "Missing Information"
            /\ UNCHANGED <<isCalculating, planTasks>>
       ELSE /\ Len(planTasks) < MaxTasks
            /\ isCalculating' = TRUE
            /\ planTasks' = Append(planTasks,
                   [currentLocation |-> currentLocation,
                    pickupLocation  |-> pickupLocation,
                    dropoffLocation |-> dropoffLocation,
                    cycleHours      |-> cycleHours,
                    mapLocations    |-> mapLocations,
                    invokedAt       |-> now,
                    live            |-> TRUE])
            /\ UNCHANGED toast
    /\ UNCHANGED <<route, localStorage, now, timeZone, navTimers>>
    /\ UNCHANGED <<currentLocation, pickupLocation, dropoffLocation,
                   cycleHours, mapLocations>>
    /\ UNCHANGED <<mapVars, reviewVars, inputVars>>

\* handlePlanTrip after its await: the i-th suspended call resumes once its
\* delay has elapsed, writes the record, schedules the navigation and, in
\* the finally block, clears isCalculating of the component that started it
PlanTripResume(i) ==
    /\ i \in 1..Len(planTasks)
    /\ TimerRuns(planTasks[i].invokedAt + CalcDelay)
    /\ toast' = "Trip Planned Successfully"
    /\ localStorage' = [localStorage EXCEPT
           ![PlanSlot] = <<JSONStringify(TripRecord(planTasks[i], now))>>]
    /\ navTimers' = Append(navTimers, now + NavDelay)
    /\ isCalculating' = IF planTasks[i].live THEN FALSE ELSE isCalculating
    /\ planTasks' = RemoveAt(planTasks, i)
    /\ UNCHANGED <<route, now, timeZone>>
    /\ UNCHANGED <<currentLocation, pickupLocation, dropoffLocation,
                   cycleHours, mapLocations>>
    /\ UNCHANGED <<mapVars, reviewVars, inputVars>>

----------------------------------------------------------------------------
(* The mock log generator and the review surface, ReviewLogs.tsx *)

DayCount == 3       \* for (let day = 0; day < 3; day++)

\* variant: the current location substituted on every day
OnDutySegmentEveryDay(data, day) ==
    [startTime |-> "06:00", endTime |-> "07:00", status |-> "onduty",
     location |-> data.currentLocation,
     duration |-> 1]

\* the five segment literals of a day, ReviewLogs.tsx:84-120
OnDutySegment(data, day) ==
    [startTime |-> "06:00", endTime |-> "07:00", status |-> "onduty",
     location |-> IF day = 0 THEN data.currentLocation ELSE "Rest Area Mile 45",
     duration |-> 1]

\* variant: the pickup address substituted on day 0 instead of day 1
MorningDrivingSegmentDayZero(data, day) ==
    [startTime |-> "07:00", endTime |-> "12:00", status |-> "driving",
     location |-> IF day = 0 THEN data.pickupLocation ELSE "Highway I-95",
     duration |-> 5]

MorningDrivingSegment(data, day) ==
    [startTime |-> "07:00", endTime |-> "12:00", status |-> "driving",
     location |-> IF day = 1 THEN data.pickupLocation ELSE "Highway I-95",
     duration |-> 5]

OffDutySegment ==
    [startTime |-> "12:00", endTime |-> "13:00", status |-> "offduty",
     location |-> "Truck Stop & Fuel",
     duration |-> 1]

\* variant: an afternoon driving segment of four hours
AfternoonDrivingSegmentFourHours(data, day) ==
    [startTime |-> "13:00", endTime |-> "18:00", status |-> "driving",
     location |-> IF day = 2 THEN data.dropoffLocation ELSE "Highway I-75",
     duration |-> 4]

AfternoonDrivingSegment(data, day) ==
    [startTime |-> "13:00", endTime |-> "18:00", status |-> "driving",
     location |-> IF day = 2 THEN data.dropoffLocation ELSE "Highway I-75",
     duration |-> 5]

SleeperSegment ==
    [startTime |-> "18:00", endTime |-> "06:00", status |-> "sleeper",
     location |-> "Authorized Parking Area",
     duration |-> 12]

\* variant: the day without its off-duty break
SegmentsWithoutBreak(data, day) ==
    << OnDutySegment(data, day), MorningDrivingSegment(data, day),
       AfternoonDrivingSegment(data, day), SleeperSegment >>

Segments(data, day) ==
    << OnDutySegment(data, day), MorningDrivingSegment(data, day), OffDutySegment,
       AfternoonDrivingSegment(data, day), SleeperSegment >>

\* the start of the date sequence: new Date(data.plannedAt)
StartDate(data) == ParseDate(data.plannedAt)

\* the logs array generateELDLogs builds; index d is the loop's day d - 1
GenerateELDLogs(data) ==
    [d \in 1..DayCount |->
        [id          |-> <<"log-", d>>,
         date        |-> ToISOString(AddDays(StartDate(data), d - 1)).date,
         drivingTime |-> 10,
         onDutyTime  |-> 1,
         sleeperTime |-> 12,
         offDutyTime |-> 1,
         segments    |-> Segments(data, d - 1)]]

\* where the review surface sends the user when the slot is empty:
\* navigate('/plan'), ReviewLogs.tsx:70
ReviewRedirectPathWrong == "/logs"

ReviewRedirectPath == "/plan"

\* navigate(path): leaving a page unmounts it (its state is dropped and the
\* calls it suspended lose their component), entering /logs runs the mount
\* effect of ReviewLogs (ReviewLogs.tsx:56-72), which redirects when the slot
\* is empty
Navigate(path) ==
    IF path = route
    THEN UNCHANGED <<route, toast, planVars, planTasks, reviewVars>>
    ELSE /\ currentLocation' = ""
         /\ pickupLocation' = ""
         /\ dropoffLocation' = ""
         /\ cycleHours' = InitialCycleHours
         /\ mapLocations' = <<>>
         /\ isCalculating' = FALSE
         /\ planTasks' = IF route = "/plan"
                         THEN [i \in 1..Len(planTasks) |->
                                  [planTasks[i] EXCEPT !.live = FALSE]]
                         ELSE planTasks
         /\ currentLogIndex' = 0
         /\ IF path = "/logs" /\ Stored(ReviewSlot) # <<>>
            THEN /\ route' = "/logs"
                 /\ tripData' = <<JSONParse(Stored(ReviewSlot)[1])>>
                 /\ eldLogs' = GenerateELDLogs(JSONParse(Stored(ReviewSlot)[1]))
                 /\ UNCHANGED toast
            ELSE /\ route' = IF path = "/logs" THEN ReviewRedirectPath ELSE path
                 /\ tripData' = <<>>
                 /\ eldLogs' = <<>>
                 /\ toast' = IF path = "/logs" THEN "No Trip Data" ELSE toast

\* a navigation link of the layout, or the Edit Trip button
UserNavigate(path) ==
    /\ Navigate(path)
    /\ UNCHANGED <<localStorage, now, timeZone, navTimers>>
    /\ UNCHANGED <<mapVars, inputVars>>

\* the timer handlePlanTrip scheduled fires: navigate('/logs')
NavTimerFire(i) ==
    /\ i \in 1..Len(navTimers)
    /\ TimerRuns(navTimers[i])
    /\ navTimers' = RemoveAt(navTimers, i)
    /\ Navigate("/logs")
    /\ UNCHANGED <<localStorage, now, timeZone>>
    /\ UNCHANGED <<mapVars, inputVars>>

\* Math.max(0, currentLogIndex - 1)
PreviousLogIndex(index) == IF index - 1 > 0 THEN index - 1 ELSE 0

\* variant: the next index without its Math.min
NextLogIndexUnclamped(index, length) == index + 1

\* Math.min(eldLogs.length - 1, currentLogIndex + 1)
NextLogIndex(index, length) ==
    IF index + 1 < length - 1 THEN index + 1 ELSE length - 1

\* the Previous Day and Next Day buttons, disabled at the ends
PreviousDay ==
    /\ route = "/logs" /\ tripData # <<>> /\ Len(eldLogs) # 0
    /\ currentLogIndex # 0
    /\ currentLogIndex' = PreviousLogIndex(currentLogIndex)
    /\ UNCHANGED <<tripData, eldLogs>>
    /\ UNCHANGED <<envVars, planVars, taskVars, mapVars, inputVars>>

NextDay ==
    /\ route = "/logs" /\ tripData # <<>> /\ Len(eldLogs) # 0
    /\ currentLogIndex # Len(eldLogs) - 1
    /\ currentLogIndex' = NextLogIndex(currentLogIndex, Len(eldLogs))
    /\ UNCHANGED <<tripData, eldLogs>>
    /\ UNCHANGED <<envVars, planVars, taskVars, mapVars, inputVars>>

\* time passes
Tick ==
    /\ now < MaxClock
    /\ now' = now + 1
    /\ UNCHANGED <<route, localStorage, toast, timeZone>>
    /\ UNCHANGED <<planVars, taskVars, mapVars, reviewVars, inputVars>>

----------------------------------------------------------------------------
(* Inputs *)

\* what the forward geocoder knows: GeocodingResult place_name and center,
\* the center being [lng, lat]
Places ==
    { [place_name |-> "A St", center |-> <<11, 1>>],
      [place_name |-> "B St", center |-> <<12, 2>>],
      [place_name |-> "C St", center |-> <<13, 3>>] }

\* variant: the center read as [lat, lng]
PickedLatLngSwapped(place) ==
    [address |-> place.place_name,
     coordinates |-> <<[lat |-> place.center[1], lng |-> place.center[2]]>>]


\* the arguments LocationInput passes to onChange when a suggestion is
\* clicked (handleSuggestionClick): the place name and {lat, lng}
Picked(place) ==
    [address |-> place.place_name,
     coordinates |-> <<[lat |-> place.center[2], lng |-> place.center[1]]>>]

\* texts the input of a role reports on the application's planning surface:
\* typed text, or the empty text of its clear button
TypedTexts(type) ==
    CASE type = "current" -> {""}
      [] type = "pickup"  -> {"", "B"}
      [] type = "dropoff" -> {"", "C"}

\* the place picked on the application's planning surface
PlanPlaces == {p \in Places : p.place_name = "A St"}

\* a record left in the slot by an earlier session
PriorTrip ==
    [currentLocation |-> "P", pickupLocation |-> "Q", dropoffLocation |-> "R",
     cycleHours |-> 40, mapLocations |-> <<>>, plannedAt |-> ToISOString(0)]

----------------------------------------------------------------------------
(* The application: planning surface, map adapter, review surface *)

InitInput ==
    /\ value = ""
    /\ debouncedSearchTerm = ""
    /\ debounceTimer = <<>>
    /\ inFlight = {}
    /\ issued = 0
    /\ suggestions = <<>>
    /\ showSuggestions = FALSE
    /\ isLoading = FALSE
    /\ isValid = FALSE
    /\ onChangeCalls = <<>>

InitPlan ==
    /\ currentLocation = ""
    /\ pickupLocation = ""
    /\ dropoffLocation = ""
    /\ cycleHours = InitialCycleHours
    /\ mapLocations = <<>>
    /\ isCalculating = FALSE
    /\ planTasks = <<>>
    /\ navTimers = <<>>

InitMapAdapter ==
    /\ mapInstance = FALSE
    /\ markers = <<>>
    /\ routeSource = <<>>
    /\ routeLayer = FALSE
    /\ routeDrawCalls = <<>>
    /\ mapsConstructed = 0
    /\ reverseInFlight = {}
    /\ locationSelections = <<>>

InitReview ==
    /\ tripData = <<>>
    /\ eldLogs = <<>>
    /\ currentLogIndex = 0

Init ==
    /\ route = "/plan"
    /\ localStorage \in { [k \in StorageKeys |-> <<>>],
                          [k \in StorageKeys |->
                              IF k = "currentTrip" THEN <<JSONStringify(PriorTrip)>>
                              ELSE <<>>] }
    /\ now = 0
    /\ toast = ""
    /\ timeZone = "UTC"
    /\ mapSurface = "maptiler"
    /\ InitPlan /\ InitMapAdapter /\ InitReview /\ InitInput

Next ==
    \/ \E type \in Roles : \E text \in TypedTexts(type) :
           HandleLocationChange(type, text, <<>>)
    \/ \E place \in PlanPlaces :
           HandleLocationChange("current", Picked(place).address, Picked(place).coordinates)
    \/ ClearAllFields
    \/ HandlePlanTrip
    \/ \E i \in 1..Len(planTasks) : PlanTripResume(i)
    \/ \E i \in 1..Len(navTimers) : NavTimerFire(i)
    \/ \E path \in {"/plan", "/logs"} : UserNavigate(path)
    \/ PreviousDay
    \/ NextDay
    \/ Tick

Spec == Init /\ [][Next]_vars

----------------------------------------------------------------------------
(* The planning surface with the SDK-backed map surface (part_000:13-76),  *)
(* whose mount effect initializes the adapter: selections and clearing     *)

\* places picked for any role on this surface
MapPlaces == {p \in Places : p.place_name \in {"A St", "B St"}}

InitSelect ==
    /\ route = "/plan"
    /\ localStorage = [k \in StorageKeys |-> <<>>]
    /\ now = 0
    /\ toast = ""
    /\ timeZone = "UTC"
    /\ mapSurface = "maptiler"
    /\ InitPlan /\ InitMapAdapter /\ InitReview /\ InitInput

NextSelect ==
    \/ InitMap
    \/ \E type \in Roles : HandleLocationChange(type, "", <<>>)
    \/ \E type \in Roles : \E place \in MapPlaces :
           HandleLocationChange(type, Picked(place).address, Picked(place).coordinates)
    \/ ClearAllFields

SpecSelect == InitSelect /\ [][NextSelect]_vars

----------------------------------------------------------------------------
(* The review surface over the records the slot may hold *)

\* instants before the ends of months and years: 2024-01-01, 2024-02-28
\* 23:59:59, 2024-12-30 12:00, 2025-02-27 00:00, 2025-12-31 00:00:01
PlannedInstants ==
    { 0,
      58 * SecondsPerDay + (SecondsPerDay - 1),
      364 * SecondsPerDay + 12 * 3600,
      (366 + 57) * SecondsPerDay,
      (366 + 364) * SecondsPerDay + 1,
      Instant(2024, 10, 26, 23 * 3600 + 1800) }

TripRecords ==
    [currentLocation : {"A", "X"},
     pickupLocation  : {"B", "X"},
     dropoffLocation : {"C", "X"},
     cycleHours      : {0, 71},
     mapLocations    : {<<>>, <<[lat |-> 1, lng |-> 11, address |-> "A St",
                                  type |-> "current"]>>},
     plannedAt       : {ToISOString(t) : t \in PlannedInstants}]

InitStored ==
    /\ route = "/plan"
    /\ \E record \in TripRecords :
           localStorage = [k \in StorageKeys |->
                              IF k = ReviewSlot THEN <<JSONStringify(record)>> ELSE <<>>]
    /\ now = 0
    /\ toast = ""
    /\ timeZone \in TimeZones
    /\ mapSurface = "maptiler"
    /\ InitPlan /\ InitMapAdapter /\ InitReview /\ InitInput

NextReview ==
    \/ \E path \in {"/plan", "/logs"} : UserNavigate(path)
    \/ PreviousDay
    \/ NextDay
    \/ Tick
    \/ \E zone \in TimeZones : TimeZoneChange(zone)

SpecReview == InitStored /\ [][NextReview]_vars

----------------------------------------------------------------------------
(* Clicks on the map surface.  Two components reverse-geocode a click: the  *)
(* MapTiler surfaces of part_000 (handleMapClick, lines 16-33 and 144-163)  *)
(* and the Mapbox surface of part_001 (click listener, lines 60-78).  The   *)
(* planning surface passes handleMapLocationSelect as onLocationSelect.     *)

MapSurfaces == {"maptiler", "mapbox"}

\* clicked points, <<lng, lat>>
ClickPoints == {<<11, 1>>, <<12, 2>>, <<13, 3>>}

\* what the reverse-geocoding service may answer: no feature, or one
ReverseFeatures == {<<>>, <<[place_name |-> "Q Rd"]>>}

\* `${lat.toFixed(4)}, ${lng.toFixed(4)}` for whole-number coordinates
CoordinateString(lat, lng) ==
    ToString(lat) \o ".0000, " \o ToString(lng) \o ".0000"

\* handleMapLocationSelect: a notice, and nothing else
HandleMapLocationSelect(location) ==
    /\ toast' = "Location Selected"
    /\ locationSelections' = <<location>>
    /\ UNCHANGED <<route, localStorage, now, timeZone>>
    /\ UNCHANGED planVars

\* a click on the map: the listener starts geocoding.reverse([lng, lat])
MapClick(point) ==
    /\ route = "/plan"
    /\ mapInstance
    /\ [lng |-> point[1], lat |-> point[2]] \notin reverseInFlight
    /\ reverseInFlight' = reverseInFlight \cup {[lng |-> point[1], lat |-> point[2]]}
    /\ locationSelections' = <<>>
    /\ UNCHANGED <<mapSurface, mapInstance, markers, routeSource, routeLayer,
                   routeDrawCalls, mapsConstructed>>
    /\ UNCHANGED <<envVars, planVars, taskVars, reviewVars, inputVars>>

\* the click handler resumes with the service's answer
ReverseResolves(request, features) ==
    /\ request \in reverseInFlight
    /\ reverseInFlight' = reverseInFlight \ {request}
    /\ IF mapSurface = "maptiler"
       THEN IF Len(features) > 0
            THEN HandleMapLocationSelect(
                     [lat |-> request.lat, lng |-> request.lng,
                      address |-> features[1].place_name])
            ELSE /\ locationSelections' = <<>>
                 /\ UNCHANGED <<envVars, planVars>>
       ELSE HandleMapLocationSelect(
                [lat |-> request.lat, lng |-> request.lng,
                 address |-> IF Len(features) > 0 THEN features[1].place_name
                             ELSE CoordinateString(request.lat, request.lng)])
    /\ UNCHANGED <<mapSurface, mapInstance, markers, routeSource, routeLayer,
                   routeDrawCalls, mapsConstructed>>
    /\ UNCHANGED <<taskVars, reviewVars, inputVars>>

\* the click handler resumes in its catch block
ReverseRejects(request) ==
    /\ request \in reverseInFlight
    /\ reverseInFlight' = reverseInFlight \ {request}
    /\ IF mapSurface = "maptiler"
       THEN /\ locationSelections' = <<>>
            /\ UNCHANGED <<envVars, planVars>>
       ELSE HandleMapLocationSelect(
                [lat |-> request.lat, lng |-> request.lng,
                 address |-> CoordinateString(request.lat, request.lng)])
    /\ UNCHANGED <<mapSurface, mapInstance, markers, routeSource, routeLayer,
                   routeDrawCalls, mapsConstructed>>
    /\ UNCHANGED <<taskVars, reviewVars, inputVars>>

InitClick ==
    /\ route = "/plan"
    /\ localStorage = [k \in StorageKeys |-> <<>>]
    /\ now = 0
    /\ toast = ""
    /\ timeZone = "UTC"
    /\ mapSurface \in MapSurfaces
    /\ InitPlan /\ InitMapAdapter /\ InitReview /\ InitInput

NextClick ==
    \/ InitMap
    \/ \E point \in ClickPoints : MapClick(point)
    \/ \E request \in reverseInFlight : \E features \in ReverseFeatures :
           ReverseResolves(request, features)
    \/ \E request \in reverseInFlight : ReverseRejects(request)
    \/ \E place \in PlanPlaces :
           HandleLocationChange("current", Picked(place).address, Picked(place).coordinates)

SpecClick == InitClick /\ [][NextClick]_vars

----------------------------------------------------------------------------
(* CycleHoursSlider (CycleHoursSlider.tsx).  Hours are counted in half      *)
(* hours, the slider's step, so that every value on its grid is an integer. *)
(* The component's arithmetic is on IEEE doubles; on this grid the quotient *)
(* value / maxHours * 100 and the products maxHours * 0.9, maxHours * 0.75  *)
(* are exact at the thresholds (63 / 70 * 100 = 90, 52.5 / 70 * 100 = 75,   *)
(* 70 * 0.9 = 63, 70 * 0.75 = 52.5), so the comparisons are rendered by     *)
(* cross-multiplication on integers.                                        *)

MaxHours == 140     \* maxHours = 70

\* variant: a slider whose max lies beyond maxHours
SliderGridPastMax == 0..(MaxHours + 20)

\* the slider's grid: min 0, max maxHours, step 0.5
SliderGrid == 0..MaxHours

\* the quick-set buttons [10, 20, 30, 40]
QuickSetHours == {20, 40, 60, 80}

\* percentage >= p, where percentage = (value / maxHours) * 100
PercentageAtLeast(hours, p) == hours * 100 >= p * MaxHours

\* variant: the thresholds compared with > instead of >=
getStatusColorStrict(hours) ==
    IF hours * 100 > 90 * MaxHours THEN "text-destructive"
    ELSE IF hours * 100 > 75 * MaxHours THEN "text-warning"
    ELSE "text-success"

getStatusColor(hours) ==
    IF PercentageAtLeast(hours, 90) THEN "text-destructive"
    ELSE IF PercentageAtLeast(hours, 75) THEN "text-warning"
    ELSE "text-success"

getStatusIcon(hours) ==
    IF PercentageAtLeast(hours, 90) THEN "AlertTriangle"
    ELSE IF PercentageAtLeast(hours, 75) THEN "Clock"
    ELSE "CheckCircle"

\* value >= maxHours * 0.9 and value >= maxHours * 0.75
AtLeastNineTenths(hours) == hours * 10 >= MaxHours * 9

AtLeastThreeQuarters(hours) == hours * 100 >= MaxHours * 75

\* the colour of the cycle bar
BarColor(hours) ==
    IF AtLeastNineTenths(hours) THEN "bg-destructive"
    ELSE IF AtLeastThreeQuarters(hours) THEN "bg-warning"
    ELSE "bg-success"

\* the message boxes under the bar
LimitMessageShown(hours) == AtLeastNineTenths(hours)

MonitorMessageShown(hours) ==
    AtLeastThreeQuarters(hours) /\ ~AtLeastNineTenths(hours)

\* handleValueChange: the slider moved to a value of its grid
HandleValueChange(newValue) == SetCycleHours(newValue)

\* a quick-set button
QuickSet(hours) == SetCycleHours(hours)

InitSlider ==
    /\ route = "/plan"
    /\ localStorage = [k \in StorageKeys |-> <<>>]
    /\ now = 0
    /\ toast = ""
    /\ timeZone = "UTC"
    /\ mapSurface = "maptiler"
    /\ InitPlan /\ InitMapAdapter /\ InitReview /\ InitInput

NextSlider ==
    \/ \E newValue \in SliderGrid : HandleValueChange(newValue)
    \/ \E hours \in QuickSetHours : QuickSet(hours)
    \/ ClearAllFields

SpecSlider == InitSlider /\ [][NextSlider]_vars

----------------------------------------------------------------------------
(* LocationInput (LocationInput.tsx).  `value` is the controlled text the   *)
(* parent feeds back through onChange.  The debounce timer, when pending,   *)
(* holds the text it was set for and whether its delay has elapsed: its     *)
(* callback runs only after the delay, and a change of the value within or  *)
(* after the delay, before the callback ran, replaces it.  Each forward-    *)
(* geocoding request is in flight until the service answers or fails, in    *)
(* any order.                                                               *)

MaxQueries == 3

\* texts the user types
SearchTexts == {"", "ab", "abc", "abcd", "12 Main St X"}

\* what the geocoding service returns for a query
Results(query) ==
    << [place_name |-> query \o " Ave", center |-> <<10 + Len(query), Len(query)>>] >>

\* useDebounce's effect when the parent feeds a new value back: the pending
\* timer is cleared and one for the new value is set
DebounceTimerAfter(text) ==
    IF text = value THEN debounceTimer ELSE <<[text |-> text, due |-> FALSE]>>

SetValue(text) ==
    /\ value' = text
    /\ debounceTimer' = DebounceTimerAfter(text)

\* onChange(address, coordinates?): the one call a handler makes; the parent
\* stores the address and feeds it back as value
OnChange(address, coordinates) ==
    /\ onChangeCalls' = <<[address |-> address, coordinates |-> coordinates]>>
    /\ SetValue(address)

\* a keystroke in the field: onChange(e.target.value)
Type(text) ==
    /\ text # value
    /\ OnChange(text, <<>>)
    /\ UNCHANGED <<debouncedSearchTerm, inFlight, issued, suggestions,
                   showSuggestions, isLoading, isValid>>
    /\ UNCHANGED <<envVars, planVars, taskVars, mapVars, reviewVars>>

\* the delay of the pending timer elapses with the value unchanged
DelayElapses ==
    /\ debounceTimer # <<>>
    /\ ~debounceTimer[1].due
    /\ debounceTimer' = <<[debounceTimer[1] EXCEPT !.due = TRUE]>>
    /\ onChangeCalls' = <<>>
    /\ UNCHANGED <<value, debouncedSearchTerm, inFlight, issued, suggestions,
                   showSuggestions, isLoading, isValid>>
    /\ UNCHANGED <<envVars, planVars, taskVars, mapVars, reviewVars>>

\* the debounce timer runs: setDebouncedValue(value), and when the debounced
\* term changed the effect on it runs
DebounceFire ==
    /\ debounceTimer # <<>>
    /\ debounceTimer[1].due
    /\ debounceTimer' = <<>>
    /\ debouncedSearchTerm' = debounceTimer[1].text
    /\ IF debounceTimer[1].text = debouncedSearchTerm
       THEN UNCHANGED <<inFlight, issued, suggestions, showSuggestions,
                        isLoading, isValid>>
       ELSE /\ IF Len(debounceTimer[1].text) > 2
               THEN /\ issued < MaxQueries
                    /\ isLoading' = TRUE
                    /\ issued' = issued + 1
                    /\ inFlight' = inFlight \cup
                           {[query |-> debounceTimer[1].text, seq |-> issued + 1]}
                    /\ UNCHANGED <<suggestions, showSuggestions>>
               ELSE /\ suggestions' = <<>>
                    /\ showSuggestions' = FALSE
                    /\ UNCHANGED <<isLoading, issued, inFlight>>
            /\ isValid' = (Len(value) > 10)
    /\ onChangeCalls' = <<>>
    /\ UNCHANGED value
    /\ UNCHANGED <<envVars, planVars, taskVars, mapVars, reviewVars>>

\* fetchSuggestions resumes with the service's answer
ForwardResolves(request) ==
    /\ request \in inFlight
    /\ inFlight' = inFlight \ {request}
    /\ suggestions' = Results(request.query)
    /\ showSuggestions' = TRUE
    /\ isLoading' = FALSE
    /\ onChangeCalls' = <<>>
    /\ UNCHANGED <<value, debouncedSearchTerm, debounceTimer, issued, isValid>>
    /\ UNCHANGED <<envVars, planVars, taskVars, mapVars, reviewVars>>

\* variant: the catch block leaving the earlier suggestions in place
SuggestionsAfterErrorKept == suggestions

\* the catch block of fetchSuggestions: setSuggestions([])
SuggestionsAfterError == <<>>

\* fetchSuggestions resumes in its catch block (console.error only), then
\* its finally block
ForwardRejects(request) ==
    /\ request \in inFlight
    /\ inFlight' = inFlight \ {request}
    /\ suggestions' = SuggestionsAfterError
    /\ isLoading' = FALSE
    /\ onChangeCalls' = <<>>
    /\ UNCHANGED <<value, debouncedSearchTerm, debounceTimer, issued,
                   showSuggestions, isValid>>
    /\ UNCHANGED <<envVars, planVars, taskVars, mapVars, reviewVars>>

\* handleSuggestionClick on an entry of the open list
HandleSuggestionClick(i) ==
    /\ showSuggestions
    /\ i \in 1..Len(suggestions)
    /\ OnChange(Picked(suggestions[i]).address, Picked(suggestions[i]).coordinates)
    /\ showSuggestions' = FALSE
    /\ isValid' = TRUE
    /\ UNCHANGED <<debouncedSearchTerm, inFlight, issued, suggestions, isLoading>>
    /\ UNCHANGED <<envVars, planVars, taskVars, mapVars, reviewVars>>

\* clearInput: the button is rendered while the field has text and no
\* query is loading
ClearInput ==
    /\ value # ""
    /\ ~isLoading
    /\ OnChange("", <<>>)
    /\ isValid' = FALSE
    /\ UNCHANGED <<debouncedSearchTerm, inFlight, issued, suggestions,
                   showSuggestions, isLoading>>
    /\ UNCHANGED <<envVars, planVars, taskVars, mapVars, reviewVars>>

InitField ==
    /\ route = "/plan"
    /\ localStorage = [k \in StorageKeys |-> <<>>]
    /\ now = 0
    /\ toast = ""
    /\ timeZone = "UTC"
    /\ mapSurface = "maptiler"
    /\ InitPlan /\ InitMapAdapter /\ InitReview /\ InitInput

NextInput ==
    \/ \E text \in SearchTexts : Type(text)
    \/ DelayElapses
    \/ DebounceFire
    \/ \E request \in inFlight : ForwardResolves(request)
    \/ \E request \in inFlight : ForwardRejects(request)
    \/ \E i \in 1..Len(suggestions) : HandleSuggestionClick(i)
    \/ ClearInput

SpecInput == InitField /\ [][NextInput]_vars

----------------------------------------------------------------------------
(* TripProvider (TripContext.tsx).  Its tripData state starts from the key   *)
(* 'tripData' and its effect writes every new state back to that key, or     *)
(* removes the key for null, so the state is what the key holds.  The state  *)
(* is kept in serialized form.                                               *)

\* the key TripProvider reads and writes, TripContext.tsx:28-36
ProviderSlot == "tripData"

\* { ...prevData, [key]: value } serialized: an own key keeps its place, a new
\* key comes last; prevData null spreads to nothing
Spread(json, key, update) ==
    IF \E i \in 1..Len(json) : json[i][1] = key
    THEN [i \in 1..Len(json) |-> IF json[i][1] = key THEN <<key, update>> ELSE json[i]]
    ELSE Append(json, <<key, update>>)

\* the provider's tripData, serialized; <<>> both for null and, spread, for
\* an object without keys
ProviderTripData ==
    IF Stored(ProviderSlot) = <<>> THEN <<>> ELSE Stored(ProviderSlot)[1]

\* a state setter of the provider followed by its effect on [tripData]
ProviderSet(json, isNull) ==
    /\ localStorage' = [localStorage EXCEPT
           ![ProviderSlot] = IF isNull THEN <<>> ELSE <<json>>]
    /\ UNCHANGED <<route, now, toast, timeZone>>
    /\ UNCHANGED <<planVars, taskVars, mapVars, reviewVars, inputVars>>

\* setTripData(data), data a TripData or null
SetTripData(data) ==
    ProviderSet(IF data = <<>> THEN <<>> ELSE JSONStringify(data[1]), data = <<>>)

updateCurrentLocation(location) ==
    ProviderSet(Spread(ProviderTripData, "currentLocation", location), FALSE)

updatePickupLocation(location) ==
    ProviderSet(Spread(ProviderTripData, "pickupLocation", location), FALSE)

updateDropoffLocation(location) ==
    ProviderSet(Spread(ProviderTripData, "dropoffLocation", location), FALSE)

updateCycleHours(hours) ==
    ProviderSet(Spread(ProviderTripData, "cycleHours", hours), FALSE)

\* planTrip(locations)
planTrip(locations) ==
    ProviderSet(Spread(Spread(ProviderTripData, "mapLocations",
                              [i \in 1..Len(locations) |-> StringifyLocation(locations[i])]),
                       "plannedAt", ToISOString(now)), FALSE)

\* what the consumers of the provider pass in
ProviderRecords == {<<>>, <<PriorTrip>>}

InitTrip ==
    /\ route = "/plan"
    /\ localStorage = [k \in StorageKeys |-> <<>>]
    /\ now = 0
    /\ toast = ""
    /\ timeZone = "UTC"
    /\ mapSurface = "maptiler"
    /\ InitPlan /\ InitMapAdapter /\ InitReview /\ InitInput

NextTrip ==
    \/ \E data \in ProviderRecords : SetTripData(data)
    \/ updateCurrentLocation("A St")
    \/ updatePickupLocation("B")
    \/ updateDropoffLocation("C")
    \/ updateCycleHours(20)
    \/ planTrip(<<>>)
    \/ \E type \in {"pickup", "dropoff"} : \E text \in TypedTexts(type) \ {""} :
           HandleLocationChange(type, text, <<>>)
    \/ \E place \in PlanPlaces :
           HandleLocationChange("current", Picked(place).address, Picked(place).coordinates)
    \/ HandlePlanTrip
    \/ \E i \in 1..Len(planTasks) : PlanTripResume(i)
    \/ \E i \in 1..Len(navTimers) : NavTimerFire(i)
    \/ Tick

SpecTrip == InitTrip /\ [][NextTrip]_vars

----------------------------------------------------------------------------
(* The planning surface around a submission: every input of the form is     *)
(* used before, during and after the wait of handlePlanTrip                  *)

\* texts typed into the field of a role
SubmitTexts(type) ==
    CASE type = "current" -> {"", "Z"}
      [] type = "pickup"  -> {"B"}
      [] type = "dropoff" -> {"C"}

InitSubmit ==
    /\ route = "/plan"
    /\ localStorage = [k \in StorageKeys |-> <<>>]
    /\ now = 0
    /\ toast = ""
    /\ timeZone = "UTC"
    /\ mapSurface = "maptiler"
    /\ InitPlan /\ InitMapAdapter /\ InitReview /\ InitInput

NextSubmit ==
    \/ \E type \in Roles : \E text \in SubmitTexts(type) :
           HandleLocationChange(type, text, <<>>)
    \/ \E place \in PlanPlaces :
           HandleLocationChange("current", Picked(place).address, Picked(place).coordinates)
    \/ ClearAllFields
    \/ QuickSet(20)
    \/ HandlePlanTrip
    \/ \E i \in 1..Len(planTasks) : PlanTripResume(i)
    \/ \E i \in 1..Len(navTimers) : NavTimerFire(i)
    \/ Tick

SpecSubmit == InitSubmit /\ [][NextSubmit]_vars

----------------------------------------------------------------------------
(* Properties of the application *)

AnyAddressEmpty ==
    currentLocation = "" \/ pickupLocation = "" \/ dropoffLocation = ""

\* C1: an accepted submission (three non-empty texts, cycle hours within
\* 0..70 h) captures the surface's inputs, and the record its resumption
\* writes to the slot, read back, has exactly the captured currentLocation,
\* pickupLocation, dropoffLocation, cycleHours and mapLocations and a
\* plannedAt not earlier than the instant submit was invoked.
C1_RecordMatchesInputs ==
    [][ /\ (HandlePlanTrip /\ ~AnyAddressEmpty /\ cycleHours \in 0..140) =>
             /\ Len(planTasks') = Len(planTasks) + 1
             /\ LET captured == planTasks'[Len(planTasks')]
                IN  /\ captured.currentLocation = currentLocation
                    /\ captured.pickupLocation = pickupLocation
                    /\ captured.dropoffLocation = dropoffLocation
                    /\ captured.cycleHours = cycleHours
                    /\ captured.mapLocations = mapLocations
                    /\ captured.invokedAt = now
        /\ \A i \in 1..Len(planTasks) : PlanTripResume(i) =>
             /\ localStorage'[PlanSlot] # <<>>
             /\ LET written == JSONParse(localStorage'[PlanSlot][1])
                IN  /\ written.currentLocation = planTasks[i].currentLocation
                    /\ written.pickupLocation = planTasks[i].pickupLocation
                    /\ written.dropoffLocation = planTasks[i].dropoffLocation
                    /\ written.cycleHours = planTasks[i].cycleHours
                    /\ written.mapLocations = planTasks[i].mapLocations
                    /\ ParseDate(written.plannedAt) >= planTasks[i].invokedAt
      ]_vars

\* a record written in this session is in the slot: picked current location,
\* one Location, written after the fixed delay
C1_Witness ==
    /\ toast = "Trip Planned Successfully"
    /\ Stored(PlanSlot) # <<>>
    /\ JSONParse(Stored(PlanSlot)[1]).currentLocation = "A St"
    /\ JSONParse(Stored(PlanSlot)[1]).pickupLocation = "B"
    /\ JSONParse(Stored(PlanSlot)[1]).dropoffLocation = "C"
    /\ JSONParse(Stored(PlanSlot)[1]).cycleHours = InitialCycleHours
    /\ Len(JSONParse(Stored(PlanSlot)[1]).mapLocations) = 1
    /\ ParseDate(JSONParse(Stored(PlanSlot)[1]).plannedAt) >= CalcDelay
    /\ currentLocation = ""
    /\ cycleHours = 0

\* C2: a submit with any address text empty shows the validation notice and
\* changes nothing else: no write to the slot, no navigation scheduled, no
\* suspended submission, isCalculating and the form state unchanged; and
\* every record written to the slot has three non-empty address texts.
C2_EmptyAddressRejected ==
    [][ /\ (HandlePlanTrip /\ AnyAddressEmpty) =>
             /\ toast' = "Missing Information"
             /\ UNCHANGED <<localStorage, navTimers, planTasks, route>>
             /\ isCalculating' = FALSE
             /\ UNCHANGED <<currentLocation, pickupLocation, dropoffLocation,
                            cycleHours, mapLocations>>
        /\ (localStorage'[PlanSlot] # localStorage[PlanSlot]) =>
             /\ localStorage'[PlanSlot] # <<>>
             /\ JSONParse(localStorage'[PlanSlot][1]).currentLocation # ""
             /\ JSONParse(localStorage'[PlanSlot][1]).pickupLocation # ""
             /\ JSONParse(localStorage'[PlanSlot][1]).dropoffLocation # ""
      ]_vars

\* the notice is up with the pickup text alone empty and nothing pending
C2_Witness ==
    /\ toast = "Missing Information"
    /\ route = "/plan"
    /\ currentLocation # "" /\ pickupLocation = "" /\ dropoffLocation # ""
    /\ ~isCalculating
    /\ planTasks = <<>> /\ navTimers = <<>>
    /\ Stored(PlanSlot) = <<>>

\* C8: activating the review surface while the slot is empty shows the
\* notice and ends on the planning route with no logs generated: eldLogs
\* stays empty and tripData stays null.
C8_EmptySlotRedirects ==
    [][ ( /\ route = "/plan"
          /\ Stored(ReviewSlot) = <<>>
          /\ (UserNavigate("/logs") \/ \E i \in 1..Len(navTimers) : NavTimerFire(i)) ) =>
             /\ toast' = "No Trip Data"
             /\ route' = "/plan"
             /\ eldLogs' = <<>>
             /\ tripData' = <<>>
      ]_vars

C8_Witness ==
    /\ toast = "No Trip Data"
    /\ route = "/plan"
    /\ Stored(ReviewSlot) = <<>>
    /\ eldLogs = <<>> /\ tripData = <<>>

----------------------------------------------------------------------------
(* Properties of location selection *)

LocationsOfRole(locations, type) ==
    {i \in 1..Len(locations) : locations[i].type = type}

HasRole(locations, type) == LocationsOfRole(locations, type) # {}

PickedLocation(type, place) ==
    [lat |-> place.center[2], lng |-> place.center[1],
     address |-> place.place_name, type |-> type]

\* C7: with the map initialized, the first selection into an empty working
\* set draws no route; the selection of a second Location of another role
\* makes exactly one drawRoute call, whose locations are the first and then
\* the second, and the route source holds their coordinates in that order;
\* a selection for a role already present leaves the size of the set as is.
C7_RouteDrawnOnSecondRole ==
    [][ \A type \in Roles : \A place \in MapPlaces :
          ( /\ mapInstance
            /\ HandleLocationChange(type, Picked(place).address,
                                    Picked(place).coordinates) ) =>
             /\ mapLocations = <<>> => routeDrawCalls' = <<>>
             /\ (Len(mapLocations) = 1 /\ ~HasRole(mapLocations, type)) =>
                  /\ routeDrawCalls' =
                        << <<mapLocations[1], PickedLocation(type, place)>> >>
                  /\ routeSource' =
                        << << <<mapLocations[1].lng, mapLocations[1].lat>>,
                              <<place.center[1], place.center[2]>> >> >>
                  /\ routeLayer'
             /\ HasRole(mapLocations, type) =>
                  /\ Len(mapLocations') = Len(mapLocations)
                  /\ mapLocations'[Len(mapLocations')] = PickedLocation(type, place)
      ]_vars

\* two roles selected and then one of them selected again: three markers
\* were requested, two Locations are held, the last handler drew one route
C7_Witness ==
    /\ mapInstance
    /\ Len(markers) = 3
    /\ Len(mapLocations) = 2
    /\ mapLocations[1].type = "pickup" /\ mapLocations[2].type = "current"
    /\ Len(routeDrawCalls) = 1
    /\ routeSource = <<RouteCoordinates(mapLocations)>>

\* C9: the working set never holds two Locations of one role, hence never
\* more than three, and right after a selection for a role the one Location
\* of that role is the newly selected one.
C9_OneLocationPerRole ==
    [][ /\ \A type \in Roles : Cardinality(LocationsOfRole(mapLocations', type)) <= 1
        /\ Len(mapLocations') <= 3
        /\ \A type \in Roles : \A place \in MapPlaces :
             HandleLocationChange(type, Picked(place).address,
                                  Picked(place).coordinates) =>
                \A i \in LocationsOfRole(mapLocations', type) :
                    mapLocations'[i] = PickedLocation(type, place)
      ]_vars

\* the dropoff Location picked at one place and then at another: one
\* Location of that role is held, the later one, beside the current one
C9_Witness ==
    /\ Len(mapLocations) = 2
    /\ mapLocations[1].type = "current"
    /\ mapLocations[2] = PickedLocation("dropoff",
                             [place_name |-> "B St", center |-> <<12, 2>>])
    /\ mapInstance
    /\ Len(markers) = 3
    /\ markers[1].lngLat = <<11, 1>> /\ markers[1].color = getMarkerColor("dropoff")

----------------------------------------------------------------------------
(* Properties of the mock log generator *)

RECURSIVE SumDurations(_)
SumDurations(segments) ==
    IF segments = <<>> THEN 0
    ELSE Head(segments).duration + SumDurations(Tail(segments))

\* C3: the logs generated from any record are exactly 3 daily logs, each of
\* exactly 5 segments whose durations sum to 24 hours.
C3_ThreeDaysOfFiveSegments ==
    tripData # <<>> =>
        /\ Len(eldLogs) = 3
        /\ \A d \in 1..Len(eldLogs) :
              /\ Len(eldLogs[d].segments) = 5
              /\ SumDurations(eldLogs[d].segments) = 24

C3_Witness ==
    /\ route = "/logs"
    /\ tripData # <<>>
    /\ tripData[1].currentLocation = "X" /\ tripData[1].cycleHours = 0
    /\ Len(eldLogs) = 3
    /\ currentLogIndex = 2

\* C4: in the generated logs the first segment of day 0 is at the record's
\* current location, the 07:00-12:00 driving segment of day 1 at its pickup
\* location and the last driving segment of day 2, 13:00-18:00, at its
\* drop-off location.
C4_AddressesSubstituted ==
    tripData # <<>> =>
        /\ eldLogs[1].segments[1].location = tripData[1].currentLocation
        /\ \E i \in 1..Len(eldLogs[2].segments) :
              /\ eldLogs[2].segments[i].status = "driving"
              /\ eldLogs[2].segments[i].startTime = "07:00"
              /\ eldLogs[2].segments[i].endTime = "12:00"
              /\ \A j \in 1..(i - 1) : eldLogs[2].segments[j].status # "driving"
              /\ eldLogs[2].segments[i].location = tripData[1].pickupLocation
        /\ \E i \in 1..Len(eldLogs[3].segments) :
              /\ eldLogs[3].segments[i].status = "driving"
              /\ eldLogs[3].segments[i].startTime = "13:00"
              /\ eldLogs[3].segments[i].endTime = "18:00"
              /\ \A j \in (i + 1)..Len(eldLogs[3].segments) :
                    eldLogs[3].segments[j].status # "driving"
              /\ eldLogs[3].segments[i].location = tripData[1].dropoffLocation

C4_Witness ==
    /\ route = "/logs"
    /\ tripData # <<>>
    /\ tripData[1].currentLocation = "A"
    /\ tripData[1].pickupLocation = "B"
    /\ tripData[1].dropoffLocation = "C"
    /\ tripData[1].cycleHours = 71
    /\ tripData[1].plannedAt = ToISOString(0)
    /\ eldLogs[1].segments[1].location = "A"
    /\ eldLogs[2].segments[2].location = "B"
    /\ eldLogs[3].segments[4].location = "C"

\* C5: generating again from the record whose logs are shown gives the logs
\* shown (ids, dates, totals and segments), whatever has happened since they
\* were generated: the output depends on nothing but the record.
C5_GeneratorDeterministic ==
    tripData # <<>> => eldLogs = GenerateELDLogs(tripData[1])

----------------------------------------------------------------------------
(* Properties of the cycle-hours slider *)

\* C6: for every value on the slider grid the severity shown is normal iff
\* the value is below 52.5 h, warning iff it is at least 52.5 h and below
\* 63 h, critical iff it is at least 63 h; the status colour and icon, the
\* bar colour and the message boxes agree on it, so exactly one applies.
C6_SeverityThresholds ==
    LET normal   == cycleHours < 105
        warning  == 105 <= cycleHours /\ cycleHours < 126
        critical == 126 <= cycleHours
    IN  /\ cycleHours \in SliderGrid
        /\ (getStatusColor(cycleHours) = "text-success") = normal
        /\ (getStatusColor(cycleHours) = "text-warning") = warning
        /\ (getStatusColor(cycleHours) = "text-destructive") = critical
        /\ (getStatusIcon(cycleHours) = "CheckCircle") = normal
        /\ (getStatusIcon(cycleHours) = "Clock") = warning
        /\ (getStatusIcon(cycleHours) = "AlertTriangle") = critical
        /\ (BarColor(cycleHours) = "bg-success") = normal
        /\ (BarColor(cycleHours) = "bg-warning") = warning
        /\ (BarColor(cycleHours) = "bg-destructive") = critical
        /\ MonitorMessageShown(cycleHours) = warning
        /\ LimitMessageShown(cycleHours) = critical

\* the slider at 52.5 h, the lower end of the warning range
C6_Witness ==
    /\ cycleHours = 105
    /\ getStatusColor(cycleHours) = "text-warning"
    /\ BarColor(cycleHours) = "bg-warning"
    /\ MonitorMessageShown(cycleHours)

----------------------------------------------------------------------------
(* Range of the cycle hours *)

\* C18: starting from 35.5 h, after any sequence of slider moves, quick-set
\* clicks and Clear All the planning surface's cycleHours lies between 0 h
\* and 70 h, and so does the cycleHours of the TripRecord that a press of
\* the plan button in that state serializes into the slot.
C18_CycleHoursInRange ==
    LET closure == [currentLocation |-> currentLocation,
                    pickupLocation  |-> pickupLocation,
                    dropoffLocation |-> dropoffLocation,
                    cycleHours      |-> cycleHours,
                    mapLocations    |-> mapLocations]
        persisted == JSONParse(JSONStringify(TripRecord(closure, now)))
    IN  /\ 0 <= cycleHours /\ cycleHours <= MaxHours
        /\ 0 <= persisted.cycleHours /\ persisted.cycleHours <= MaxHours

\* the slider moved to its far end, 70 h
C18_Witness ==
    /\ cycleHours = MaxHours
    /\ cycleHours # InitialCycleHours
    /\ route = "/plan"

----------------------------------------------------------------------------
(* Properties of the location input *)

\* C10: once no forward-geocoding request is in flight and the debounced
\* term is a query (more than 2 characters), the suggestions held are those
\* of that query, the most recently issued one, or none if it failed: an
\* older query's results that arrived later have been discarded.
C10_StaleResponsesDiscarded ==
    (inFlight = {} /\ Len(debouncedSearchTerm) > 2) =>
        suggestions \in {Results(debouncedSearchTerm), <<>>}

----------------------------------------------------------------------------
(* Properties of the map adapter *)

MarkersOfRole(type) == {i \in 1..Len(markers) : markers[i].color = getMarkerColor(type)}

\* C11: with the map initialized, the adapter holds at most one marker per
\* role and no more markers than the working set has Locations: replacing
\* a role's Location removes that role's earlier marker.
C11_OneMarkerPerRole ==
    mapInstance =>
        /\ \A type \in Roles : Cardinality(MarkersOfRole(type)) <= 1
        /\ Len(markers) <= Len(mapLocations)

\* C12: initMap on a provider whose map instance exists changes nothing of
\* the adapter (instance, markers, route source and layer), and however
\* often initMap is called no more than one Map is ever constructed.
C12_InitMapIdempotent ==
    [][ /\ (InitMap /\ mapInstance) => UNCHANGED mapVars
        /\ mapsConstructed' <= 1
        /\ mapInstance' = (mapsConstructed' = 1)
      ]_vars

\* an initialized map with two markers and a route, from which initMap is
\* called again
C12_Witness ==
    /\ mapInstance
    /\ mapsConstructed = 1
    /\ Len(markers) = 2
    /\ routeLayer
    /\ ENABLED InitMap

----------------------------------------------------------------------------
(* Further properties of the location input *)

\* C13: a click on a suggestion makes exactly one onChange call, with the
\* suggestion's place name and with lat the second and lng the first entry
\* of its center; the list is closed and the input marked valid.
C13_SuggestionClickEmitsSelection ==
    [][ \A i \in 1..Len(suggestions) : HandleSuggestionClick(i) =>
          /\ onChangeCalls' =
                <<[address     |-> suggestions[i].place_name,
                   coordinates |-> <<[lat |-> suggestions[i].center[2],
                                      lng |-> suggestions[i].center[1]]>>]>>
          /\ value' = suggestions[i].place_name
          /\ ~showSuggestions'
          /\ isValid'
      ]_vars

\* the suggestion for "abc" (center lng 13, lat 3) has just been clicked
C13_Witness ==
    /\ onChangeCalls = <<[address |-> "abc Ave",
                          coordinates |-> <<[lat |-> 3, lng |-> 13]>>]>>
    /\ value = "abc Ave"
    /\ ~showSuggestions
    /\ isValid
    /\ suggestions = Results("abc")

\* C14: when a forward-geocoding request fails the suggestions are emptied
\* and the loading indicator cleared, and nothing else shows: no onChange
\* call, the same text, no notice, the same page.
C14_GeocodingFailureSilent ==
    [][ \A request \in inFlight : ForwardRejects(request) =>
          /\ suggestions' = <<>>
          /\ ~isLoading'
          /\ onChangeCalls' = <<>>
          /\ value' = value
          /\ toast' = toast
          /\ route' = route
      ]_vars

\* a query failed after an earlier one had filled and opened the list
C14_Witness ==
    /\ suggestions = <<>>
    /\ showSuggestions
    /\ ~isLoading
    /\ inFlight = {}
    /\ issued = 2
    /\ Len(debouncedSearchTerm) > 2
    /\ onChangeCalls = <<>>

----------------------------------------------------------------------------
(* Properties of clicks on the map *)

\* C15: on either map surface, when the reverse geocoding of a click fails
\* the handler still calls onLocationSelect, once, with the clicked point
\* and its coordinate string as the address.
C15_ReverseFailureFallsBack ==
    [][ \A request \in reverseInFlight : ReverseRejects(request) =>
          locationSelections' =
              <<[lat |-> request.lat, lng |-> request.lng,
                 address |-> CoordinateString(request.lat, request.lng)]>>
      ]_vars

\* C16: when the reverse geocoding of a click succeeds with a feature, the
\* working set afterwards holds a Location with the clicked coordinates and
\* the resolved address.
C16_MapClickCreatesLocation ==
    [][ \A request \in reverseInFlight : \A features \in ReverseFeatures :
          (ReverseResolves(request, features) /\ Len(features) > 0) =>
              \E j \in 1..Len(mapLocations') :
                  /\ mapLocations'[j].lat = request.lat
                  /\ mapLocations'[j].lng = request.lng
                  /\ mapLocations'[j].address = features[1].place_name
      ]_vars

----------------------------------------------------------------------------
(* Properties of the submission sequence *)

----------------------------------------------------------------------------
(* Properties of the route overlay *)

\* C19: on an initialized map every drawRoute call with at least two
\* locations removes the previous route before it adds: it never adds the
\* source or the layer while one with that id exists, before and after the
\* call the source exists iff the layer exists, and after the call the one
\* route layer shows the coordinates of the call's locations in their order.
\* The route effect of the surface that owns its map, run on the same
\* overlay, agrees with it.
C19_RemoveThenAdd ==
    [][ \A type \in Roles : \A place \in MapPlaces :
          ( /\ mapInstance
            /\ HandleLocationChange(type, Picked(place).address,
                                    Picked(place).coordinates)
            /\ routeDrawCalls' # <<>> ) =>
             LET locations == routeDrawCalls'[1]
                 viaEffect == RouteEffect(RouteOverlay, locations, TRUE)
             IN  /\ Len(locations) >= 2
                 /\ ~DrawRoute(locations).duplicate
                 /\ (routeSource # <<>>) = routeLayer
                 /\ (routeSource' # <<>>) = routeLayer'
                 /\ routeLayer'
                 /\ routeSource' = <<RouteCoordinates(locations)>>
                 /\ Len(routeSource') = 1
                 /\ ~viaEffect.duplicate
                 /\ viaEffect.layer = routeLayer'
                 /\ viaEffect.source = routeSource'
      ]_vars

\* a route was drawn over a previous one: the overlay shows the three
\* locations of the last call
C19_Witness ==
    /\ mapInstance
    /\ routeLayer
    /\ Len(routeDrawCalls) = 1
    /\ Len(routeDrawCalls[1]) = 3
    /\ Len(markers) = 3
    /\ routeSource = <<RouteCoordinates(routeDrawCalls[1])>>

----------------------------------------------------------------------------
(* Properties of the debounce *)

\* C20: a forward-geocoding query is issued only when the debounce timer
\* runs, for a text longer than 2 characters that is the field's value and
\* stayed so for the whole delay; a keystroke issues nothing and replaces
\* the pending timer, so a superseded text produces no query; and when the
\* timer runs for a text of 2 or fewer characters no query is issued and
\* the suggestions are emptied and hidden.
C20_DebouncedQueries ==
    [][ /\ issued' # issued =>
              /\ debounceTimer # <<>>
              /\ debounceTimer[1].due
              /\ debounceTimer[1].text = value
              /\ value' = value
              /\ Len(value) > 2
              /\ debouncedSearchTerm' = value
              /\ inFlight' = inFlight \cup {[query |-> value, seq |-> issued']}
        /\ inFlight \subseteq inFlight' \/ issued' = issued
        /\ \A text \in SearchTexts : Type(text) =>
              /\ issued' = issued
              /\ inFlight' = inFlight
              /\ debounceTimer' = <<[text |-> text, due |-> FALSE]>>
        /\ (DebounceFire /\ Len(value) <= 2) =>
              /\ issued' = issued
              /\ inFlight' = inFlight
              /\ suggestions' = <<>>
              /\ ~showSuggestions'
      ]_vars

----------------------------------------------------------------------------
(* Properties of the day pagination *)

\* C21: while the review surface shows logs, the current day index lies
\* within 0 .. number of logs - 1, with three logs; the previous-day handler
\* at the first day and the next-day handler at the last day give the same
\* index; and the log displayed at the index exists.
C21_DayIndexInRange ==
    (route = "/logs" /\ tripData # <<>>) =>
        /\ Len(eldLogs) = DayCount
        /\ currentLogIndex \in 0..(Len(eldLogs) - 1)
        /\ PreviousLogIndex(currentLogIndex) \in 0..(Len(eldLogs) - 1)
        /\ NextLogIndex(currentLogIndex, Len(eldLogs)) \in 0..(Len(eldLogs) - 1)
        /\ currentLogIndex = 0 => PreviousLogIndex(currentLogIndex) = 0
        /\ currentLogIndex = Len(eldLogs) - 1 =>
               NextLogIndex(currentLogIndex, Len(eldLogs)) = currentLogIndex
        /\ currentLogIndex + 1 \in DOMAIN eldLogs
        /\ Len(eldLogs[currentLogIndex + 1].segments) > 0

\* the last day is shown, reached with the next-day button
C21_Witness ==
    /\ route = "/logs" /\ tripData # <<>>
    /\ currentLogIndex = DayCount - 1
    /\ ~ENABLED NextDay
    /\ ENABLED PreviousDay

----------------------------------------------------------------------------
(* Properties of the aggregated totals *)

\* the sum of the durations of the segments having a status
RECURSIVE SumOfStatus(_, _)
SumOfStatus(segments, status) ==
    IF segments = <<>> THEN 0
    ELSE (IF Head(segments).status = status THEN Head(segments).duration ELSE 0)
         + SumOfStatus(Tail(segments), status)

TotalsDiffer(log) ==
    \/ log.drivingTime # SumOfStatus(log.segments, "driving")
    \/ log.onDutyTime  # SumOfStatus(log.segments, "onduty")
    \/ log.sleeperTime # SumOfStatus(log.segments, "sleeper")
    \/ log.offDutyTime # SumOfStatus(log.segments, "offduty")

\* C22 as stated: there is a TripRecord and a day whose aggregated totals
\* differ from the sums of the durations of that day's segments by status.
C22_TotalsDifferFromSegments ==
    \E record \in TripRecords : \E d \in 1..DayCount :
        TotalsDiffer(GenerateELDLogs(record)[d])

\* C22, amended: each daily log shown carries the totals 10 h driving, 1 h
\* on duty, 12 h sleeper and 1 h off duty, and each total equals the sum of
\* the durations of that day's segments having that status.
C22_TotalsMatchSegments ==
    tripData # <<>> =>
        \A d \in 1..Len(eldLogs) :
            /\ eldLogs[d].drivingTime = 10
            /\ eldLogs[d].onDutyTime = 1
            /\ eldLogs[d].sleeperTime = 12
            /\ eldLogs[d].offDutyTime = 1
            /\ ~TotalsDiffer(eldLogs[d])

\* the second day of the logs of a record with substituted addresses
C22_Witness ==
    /\ route = "/logs"
    /\ tripData # <<>>
    /\ tripData[1].pickupLocation = "X"
    /\ currentLogIndex = 1
    /\ SumOfStatus(eldLogs[2].segments, "driving") = 10
    /\ eldLogs[2].segments[2].location = "X"

----------------------------------------------------------------------------
(* Dependence of the logs on the record *)

\* day and segment (both counted from 1) of the three substituted locations
SubstitutedPlaces == {<<1, 1>>, <<2, 2>>, <<3, 4>>}

\* two sequences of daily logs that agree in everything except possibly the
\* locations of the three substituted segments
AgreeExceptSubstituted(logs, others) ==
    /\ Len(logs) = Len(others)
    /\ \A d \in 1..Len(logs) :
          /\ logs[d].id = others[d].id
          /\ logs[d].date = others[d].date
          /\ logs[d].drivingTime = others[d].drivingTime
          /\ logs[d].onDutyTime = others[d].onDutyTime
          /\ logs[d].sleeperTime = others[d].sleeperTime
          /\ logs[d].offDutyTime = others[d].offDutyTime
          /\ Len(logs[d].segments) = Len(others[d].segments)
          /\ \A i \in 1..Len(logs[d].segments) :
                /\ logs[d].segments[i].startTime = others[d].segments[i].startTime
                /\ logs[d].segments[i].endTime = others[d].segments[i].endTime
                /\ logs[d].segments[i].status = others[d].segments[i].status
                /\ logs[d].segments[i].duration = others[d].segments[i].duration
                /\ <<d, i>> \notin SubstitutedPlaces =>
                      logs[d].segments[i].location = others[d].segments[i].location

\* C23: when the review surface generates the logs of the record it loaded,
\* the logs of any other record with the same plannedAt, whatever its
\* addresses, cycleHours and mapLocations, are the same except possibly for
\* the location of day 0's first segment, day 1's first driving segment and
\* day 2's final driving segment; three substituted locations out of
\* fifteen leave twelve fixed.
C23_ThreeSubstitutions ==
    [][ (tripData = <<>> /\ tripData' # <<>>) =>
          /\ Cardinality(SubstitutedPlaces) = 3
          /\ eldLogs'[2].segments[2].status = "driving"
          /\ eldLogs'[2].segments[1].status # "driving"
          /\ eldLogs'[3].segments[4].status = "driving"
          /\ eldLogs'[3].segments[5].status # "driving"
          /\ \A other \in TripRecords :
                other.plannedAt = tripData'[1].plannedAt =>
                    AgreeExceptSubstituted(eldLogs', GenerateELDLogs(other))
      ]_vars

\* logs generated from a record with cycle hours 0 and one Location
C23_Witness ==
    /\ route = "/logs"
    /\ tripData # <<>>
    /\ tripData[1].cycleHours = 0
    /\ tripData[1].mapLocations # <<>>
    /\ tripData[1].dropoffLocation = "X"
    /\ eldLogs[3].segments[4].location = "X"
    /\ eldLogs[3].segments[1].location = "Rest Area Mile 45"

----------------------------------------------------------------------------
(* Properties of the persisted slot *)

\* C24: the planning surface, the review surface and the trip provider use
\* one and the same key: every write to the storage changes that key only,
\* no other key ever holds a copy, and the value written is a whole record
\* built at the instant of the write, never an earlier value with some of
\* its fields changed.
C24_OneSlotWholeRecords ==
    [][ /\ PlanSlot = ReviewSlot
        /\ ProviderSlot = PlanSlot
        /\ \A key \in StorageKeys \ {PlanSlot} : localStorage'[key] = <<>>
        /\ (localStorage'[PlanSlot] # localStorage[PlanSlot]) =>
              /\ localStorage'[PlanSlot] # <<>>
              /\ localStorage'[PlanSlot][1] =
                    JSONStringify(JSONParse(localStorage'[PlanSlot][1]))
              /\ Field(localStorage'[PlanSlot][1], "plannedAt") = ToISOString(now)
      ]_vars

----------------------------------------------------------------------------
(* Properties of edits during a submission *)

\* C25: while a submission waits, a step on the planning surface that
\* changes an address text, the cycle hours or the working set (typing, a
\* selection, a quick-set, Clear All Fields) leaves the suspended call and
\* its captured values as they are and the surface submitting; and the
\* record the call writes has exactly the captured values in every field.
C25_SubmissionWritesSnapshot ==
    [][ /\ ( /\ planTasks # <<>>
             /\ route' = route
             /\ <<currentLocation, pickupLocation, dropoffLocation,
                  cycleHours, mapLocations>>' #
                <<currentLocation, pickupLocation, dropoffLocation,
                  cycleHours, mapLocations>> ) =>
              /\ planTasks' = planTasks
              /\ isCalculating' = isCalculating
              /\ localStorage' = localStorage
        /\ \A i \in 1..Len(planTasks) : PlanTripResume(i) =>
              LET written == JSONParse(Stored(PlanSlot)'[1])
              IN  /\ written.currentLocation = planTasks[i].currentLocation
                  /\ written.pickupLocation = planTasks[i].pickupLocation
                  /\ written.dropoffLocation = planTasks[i].dropoffLocation
                  /\ written.cycleHours = planTasks[i].cycleHours
                  /\ written.mapLocations = planTasks[i].mapLocations
      ]_vars

\* the record of a submission made with a picked current location and
\* 35.5 h is in the slot, and the form was edited during the wait: the
\* current text is another, the cycle hours are 10 h
C25_Witness ==
    /\ route = "/plan"
    /\ toast = "Trip Planned Successfully"
    /\ Stored(PlanSlot) # <<>>
    /\ JSONParse(Stored(PlanSlot)[1]).currentLocation = "A St"
    /\ JSONParse(Stored(PlanSlot)[1]).cycleHours = InitialCycleHours
    /\ Len(JSONParse(Stored(PlanSlot)[1]).mapLocations) = 1
    /\ ParseDate(JSONParse(Stored(PlanSlot)[1]).plannedAt) = CalcDelay
    /\ now = CalcDelay
    /\ currentLocation = "Z"
    /\ cycleHours = 20

----------------------------------------------------------------------------
(* Consistency of the written record *)

\* the address text of a record for a role
AddressOfRole(record, type) ==
    CASE type = "current" -> record.currentLocation
      [] type = "pickup"  -> record.pickupLocation
      [] type = "dropoff" -> record.dropoffLocation

\* C26: in every record a submission writes, each Location of mapLocations
\* has the address that the record gives as the text of that Location's
\* role.
C26_LocationsMatchTexts ==
    [][ \A i \in 1..Len(planTasks) : PlanTripResume(i) =>
          LET written == JSONParse(Stored(PlanSlot)'[1])
          IN  \A j \in 1..Len(written.mapLocations) :
                  written.mapLocations[j].address =
                      AddressOfRole(written, written.mapLocations[j].type)
      ]_vars

----------------------------------------------------------------------------
(* Properties of the suggestion list *)

\* the list is rendered: showSuggestions && suggestions.length > 0
ListOpen == showSuggestions /\ Len(suggestions) > 0

\* the field's text is a selected suggestion's place name, which no typed
\* text is: a selection was made and the text was not edited since
SelectionStands == value \notin SearchTexts

\* C27: from a selection until the next edit of the text the suggestion
\* list is closed, whatever timers expire and responses arrive.
C27_ListClosedAfterSelection ==
    SelectionStands => ~ListOpen

----------------------------------------------------------------------------
(* Properties of the loading indicator *)

\* C28: the loading indicator is on exactly while at least one forward-
\* geocoding query is in flight; it is off once all issued queries have
\* completed.
C28_LoadingTracksQueries ==
    isLoading = (inFlight # {})

----------------------------------------------------------------------------
(* Properties of Clear All Fields *)

\* C29: after Clear All Fields the three address texts are empty, the cycle
\* hours are 0, the working set is empty, and the map holds no marker and no
\* route source or layer.
C29_ClearAllClearsMap ==
    [][ ClearAllFields =>
          /\ currentLocation' = "" /\ pickupLocation' = "" /\ dropoffLocation' = ""
          /\ cycleHours' = 0
          /\ mapLocations' = <<>>
          /\ markers' = <<>>
          /\ routeSource' = <<>>
          /\ ~routeLayer'
      ]_vars

----------------------------------------------------------------------------
(* Properties of overlapping submissions *)

\* C30: a submission is in progress from its acceptance until its record is
\* written and its navigation has happened; at most one is in progress at
\* any time, and a press of the plan button is accepted only when none is.
C30_OneSubmissionInProgress ==
    [][ /\ Len(planTasks') + Len(navTimers') <= 1
        /\ (HandlePlanTrip /\ ~MissingInformation) =>
              /\ planTasks = <<>>
              /\ navTimers = <<>>
      ]_vars

====
